---- MODULE Spec2Model ----
(***************************************************************************)
(* A model of the http package of arbenlabs/stoner: Client.Do with its     *)
(* retry loop and exponential backoff, the JSON convenience layer, and the *)
(* channel-based RateLimiter.                                              *)
(*                                                                         *)
(* Durations.  A time.Duration is an int64 count of nanoseconds.  The      *)
(* client model measures durations in whole minutes (the configured Delay  *)
(* is a whole number of minutes and Backoff a whole number), so that the   *)
(* int64 range fits the model checker's integers: MaxDur is the largest    *)
(* whole number of minutes an int64 of nanoseconds can hold.  On this      *)
(* domain every float64 product the code computes is exact as long as it   *)
(* is in range (a multiple of 2^11 ns below 2^63 has at most 52            *)
(* significant bits), so the only lossy step is the conversion of an       *)
(* out-of-range float64 to time.Duration.                                  *)
(***************************************************************************)
EXTENDS Integers, Sequences, FiniteSets, Bags, TLC

VARIABLES
    \* ---- Client (src/unnamed/part_000:14-20) ----
    retryConfig,     \* *RetryConfig: [MaxRetries, Delay, Backoff]
    circuitBreaker,  \* *CircuitBreaker: [MaxFailures, Timeout, ResetTimeout]
    \* ---- one call of Do / JSON in progress ----
    pc,              \* "idle" | "loop" | "sleep" | "json" | "done"
    entry,           \* which entry point the caller used: "Do" | "JSON"
    req,             \* the *Request of the call
    attempt,         \* Do's loop variable
    lastErr,         \* Do's lastErr
    delay,           \* Do's delay, the argument of the pending time.Sleep
    ret,             \* what Do returned: [resp, err]
    jsonErr,         \* what JSON returned
    \* ---- history of the call in progress (observations, not program state) ----
    outcomes,        \* one entry per doRequest call: [t, resp, err]
    calls,           \* number of httpClient.Do invocations
    waits,           \* the time each time.Sleep of the call actually waited
    \* ---- history of the Client across calls ----
    consecFail,      \* consecutive transport failures observed, saturating
    sinceTrip,       \* time slept since consecFail reached MaxFailures, saturating
    tripAtStart,     \* whether the call started with the failure threshold reached
    \* ---- RateLimiter (src/unnamed/part_000:344-347) ----
    requests,        \* the buffered channel: the number of tokens in it
    burst,           \* the channel's capacity
    rate,            \* rl.rate
    clock,           \* the wall clock, in units of time
    wpc,             \* per caller of Wait: "idle" | "blocked" | "spawn"
    refills,         \* the goroutines started by Wait: a bag of [st, wake]
    served,          \* history: per token consumed, [at, blocked]
    returned,        \* history: the clock at each return of Wait less than rate ago
    \* ---- the header loops of doRequest / WithContext (part_000:187-198, 310-321) ----
    hdefaults,       \* c.defaultHeaders: key -> value
    hreq,            \* req.Headers: key -> value
    hbody,           \* req.Body != nil
    hpc,             \* "defaults" | "request" | "ctype" | "done"
    htodo,           \* the keys the running range loop has still to visit
    sent,            \* httpReq.Header: canonical key -> value
    \* ---- one call of WithContext in progress ----
    wcpc,            \* "idle" | "inflight" | "done"
    wcreq,           \* the *Request of the call
    wcctx,           \* the caller's context: "live" | "cancelled"
    wcret,           \* what WithContext returned: [resp, err]
    wchist,          \* history: [calls, cancelledInFlight]
    \* ---- concurrent calls of Do on one Client ----
    dcall,           \* per call: [pc, req, attempt, lastErr, ret, n]; n counts doRequest calls
    brk,             \* history: the design's breaker, fed with what the calls do
    \* ---- Cron (src/time/time.go:116-128) ----
    cjobs,           \* c.Jobs: sequence of [Schedule, NextRun, LastRun]
    cstarted,        \* whether Start's goroutine is running
    cnow,            \* the wall clock, in minutes
    cadds,           \* history: per AddJob call, [schedule, err]
    cruns,           \* history: per job, the times its Function was run
    \* ---- SanitizePath (src/unnamed/part_001:190-204) ----
    spath,           \* the argument
    spc,             \* "called" | "returned"
    sout,            \* the string returned
    \* ---- Migrator (src/db/db.go:247-366, src/gq/gq.go:808-918) ----
    migrations,      \* m.migrations: the versions registered, in order
    mtable,          \* the migrations table: version -> applied_at
    mclock,          \* the database's CURRENT_TIMESTAMP
    mpc,             \* "idle" | "check" | "up" | "insert" | "down" | "delete"
    mi,              \* RunMigrations' position in m.migrations
    mversions,       \* RollbackMigrations' versions still to roll back
    mcalls,          \* calls of RunMigrations and RollbackMigrations begun
    mhist            \* history: [failed, ups, order, downs, expect, count]

cvars == <<retryConfig, circuitBreaker, pc, entry, req, attempt, lastErr, delay,
           ret, jsonErr, outcomes, calls, waits, consecFail, sinceTrip, tripAtStart>>
rvars == <<requests, burst, rate, clock, wpc, refills, served, returned>>
hvars == <<hdefaults, hreq, hbody, hpc, htodo, sent>>
kvars == <<wcpc, wcreq, wcctx, wcret, wchist>>
dvars == <<dcall, brk>>
tvars == <<cjobs, cstarted, cnow, cadds, cruns>>
svars == <<spath, spc, sout>>
mvars == <<migrations, mtable, mclock, mpc, mi, mversions, mcalls, mhist>>
\* the http package, and the other packages
httpvars == <<cvars, rvars, hvars, kvars, dvars>>
pvars == <<tvars, svars, mvars>>
vars == <<httpvars, pvars>>

---------------------------------------------------------------------------
(* Bounds of the model *)

\* The largest MaxRetries a configuration is drawn with.
MaxRetriesBound == 3
\* The largest MaxFailures a configuration is drawn with.
MaxFailuresBound == 2
\* The rate limiter: the largest burst and rate, the number of concurrent
\* callers of Wait, the number of Wait calls, and the last clock value.
MaxBurst == 2
MaxRate == 2
NumCallers == 2
NumCalls == 2
\* Cron: the AddJob calls made and the last minute of the clock.
MaxAdds == 2
MaxCronClock == 11
\* SanitizePath: the longest path passed.
MaxPathLen == 4
\* Migrator: the migrations registered, the calls made, the largest count.
MaxMigrations == 2
MaxMigCalls == 3
MaxCount == 2
MaxWaits == 4
MaxClock == 4

\* The largest int64 count of nanoseconds, in whole minutes:
\* 9223372036854775807 ns \div 60e9.
MaxDur == 153722867
\* The smallest time.Duration (a negative count), in the model's unit.
MinDur == -MaxDur - 1
\* A float64 value above the int64 range.
OutOfRange == MaxDur + 1

\* Delay: zero, a minute, a day.   Backoff: the multiplier, >= 1.
Delays == {0, 1, 1440}
Backoffs == {1, 2, 1000}

Nil == [kind |-> "nil"]

---------------------------------------------------------------------------
(* Requests, transport outcomes, responses, errors *)

\* The requests a caller makes: a well-formed GET and POST, a POST whose body
\* json.Marshal rejects (a channel), a URL that does not parse, a method that
\* is no token.
Requests ==
    { [Method |-> "GET",  URL |-> "/items", Body |-> "nil"],
      [Method |-> "POST", URL |-> "/items", Body |-> "value"],
      [Method |-> "POST", URL |-> "/items", Body |-> "chan"],
      [Method |-> "GET",  URL |-> "/%zz",   Body |-> "nil"],
      [Method |-> "GE T", URL |-> "/items", Body |-> "nil"] }

StatusCodes == {200, 400, 404, 500}

\* What the transport does with one request: httpClient.Do fails (two distinct
\* errors), the round trip succeeds but reading the body fails, or a response
\* arrives, with a status code and a body that is JSON or is not.
TransportOutcomes ==
    { [kind |-> "connErr", id |-> 1], [kind |-> "connErr", id |-> 2],
      [kind |-> "readErr"] }
    \cup { [kind |-> "status", code |-> c, body |-> "json"] : c \in StatusCodes }
    \cup { [kind |-> "status", code |-> 200, body |-> "garbage"] }

NotInvoked == [kind |-> "none"]

---------------------------------------------------------------------------
(* float64 arithmetic and time.Duration, on the model's domain *)

\* x * y in float64.  The operands are whole numbers; a product beyond the
\* int64 range of durations is kept as OutOfRange (its exact value is not
\* needed: every such value converts the same way).
FMul(x, y) ==
    IF x = 0 \/ y = 0 THEN 0
    ELSE IF x = OutOfRange \/ y = OutOfRange THEN OutOfRange
    ELSE IF x > MaxDur \div y THEN OutOfRange
    ELSE x * y

\* pow's loop: result := 1.0; int(y) times result *= x.
RECURSIVE powLoop(_, _)
powLoop(x, n) == IF n <= 0 THEN 1 ELSE FMul(powLoop(x, n - 1), x)

\* pow(x, y) for y = float64(attempt): int(y) is attempt again.
pow(x, y) == powLoop(x, y)

\* time.Duration(f): a float64 in range converts to the same whole number.
\* Out of range the Go specification leaves the result to the implementation:
\* amd64 yields the smallest int64, arm64 saturates at the largest.
ToDuration(f) == IF f = OutOfRange THEN {MinDur, MaxDur} ELSE {f}

\* How long time.Sleep(d) waits: not at all for d <= 0.
SleepTime(d) == IF d <= 0 THEN 0 ELSE d

---------------------------------------------------------------------------
(* Client.doRequest, Client.Do, Client.JSON *)

\* http.NewRequest accepts a method that is a token and a URL that parses.
ValidMethod(m) == m \in {"GET", "POST", "PUT", "PATCH", "DELETE"}
ValidURL(u) == u # "/%zz"

\* doRequest with a status check it does not have: a 5xx response made an error.
doRequest_RetryOn5xx(r, t) ==
    IF r.Body = "chan"
    THEN [t |-> NotInvoked, resp |-> Nil, err |-> [kind |-> "marshal"]]
    ELSE IF ~ValidMethod(r.Method) \/ ~ValidURL(r.URL)
    THEN [t |-> NotInvoked, resp |-> Nil, err |-> [kind |-> "newrequest"]]
    ELSE IF t.kind = "connErr"
    THEN [t |-> t, resp |-> Nil, err |-> [kind |-> "request", cause |-> t.id]]
    ELSE IF t.kind = "readErr"
    THEN [t |-> t, resp |-> Nil, err |-> [kind |-> "readbody"]]
    ELSE IF t.code >= 500
    THEN [t |-> t, resp |-> Nil, err |-> [kind |-> "status", code |-> t.code]]
    ELSE [t |-> t, resp |-> [StatusCode |-> t.code, Body |-> t.body], err |-> Nil]

\* doRequest(req) when the transport, if reached, behaves as t:
\* the transport outcome (NotInvoked if it was not reached), the response, the error.
doRequest(r, t) ==
    IF r.Body = "chan"
    THEN [t |-> NotInvoked, resp |-> Nil, err |-> [kind |-> "marshal"]]
    ELSE IF ~ValidMethod(r.Method) \/ ~ValidURL(r.URL)
    THEN [t |-> NotInvoked, resp |-> Nil, err |-> [kind |-> "newrequest"]]
    ELSE IF t.kind = "connErr"
    THEN [t |-> t, resp |-> Nil, err |-> [kind |-> "request", cause |-> t.id]]
    ELSE IF t.kind = "readErr"
    THEN [t |-> t, resp |-> Nil, err |-> [kind |-> "readbody"]]
    ELSE [t |-> t, resp |-> [StatusCode |-> t.code, Body |-> t.body], err |-> Nil]

\* The loop also asking the breaker: no attempt once the failure threshold is reached.
LoopCond_BreakerGate(a, rc) ==
    a <= rc.MaxRetries /\ consecFail < circuitBreaker.MaxFailures

\* The loop condition off by one: attempt < MaxRetries.
LoopCond_OffByOne(a, rc) == a < rc.MaxRetries

\* for attempt := 0; attempt <= c.retryConfig.MaxRetries; attempt++
LoopCond(a, rc) == a <= rc.MaxRetries

\* if attempt == c.retryConfig.MaxRetries { break }
IsLastAttempt(a, rc) == a = rc.MaxRetries

\* lastErr set by the first failure only.
NextLastErr_KeepFirst(le, err) == IF le = Nil THEN err ELSE le

\* lastErr = err
NextLastErr(le, err) == err

\* float64(c.retryConfig.Delay) * pow(c.retryConfig.Backoff, float64(attempt))
BackoffDelay(rc, a) == FMul(rc.Delay, pow(rc.Backoff, a))

\* The success path returning no response.
SuccessReturn_NilResp(r) == [resp |-> Nil, err |-> Nil]

\* return response, nil
SuccessReturn(r) == [resp |-> r.resp, err |-> Nil]

\* return nil, fmt.Errorf("request failed after %d attempts: %w", MaxRetries+1, lastErr)
ExhaustedReturn(rc, le) ==
    [resp |-> Nil,
     err |-> [kind |-> "exhausted", attempts |-> rc.MaxRetries + 1, wrapped |-> le]]

\* JSON with the threshold one off: status > 400.
JSONResult_Above400(r) ==
    IF r.err # Nil THEN r.err
    ELSE IF r.resp.StatusCode > 400
    THEN [kind |-> "http", code |-> r.resp.StatusCode]
    ELSE IF r.resp.Body = "json" THEN Nil ELSE [kind |-> "unmarshal"]

\* JSON, after Do returned r: Do's error, an HTTP error for a status >= 400,
\* else what json.Unmarshal makes of the body.
JSONResult(r) ==
    IF r.err # Nil THEN r.err
    ELSE IF r.resp.StatusCode >= 400
    THEN [kind |-> "http", code |-> r.resp.StatusCode]
    ELSE IF r.resp.Body = "json" THEN Nil ELSE [kind |-> "unmarshal"]

\* Where control goes when Do returns: to JSON's continuation, or to the caller.
AfterDo == IF entry = "JSON" THEN "json" ELSE "done"

\* The consecutive transport failures the Client has seen, after one more doRequest.
Observe(cf, r) ==
    IF r.t = NotInvoked THEN cf
    ELSE IF r.err = Nil THEN 0
    ELSE IF cf < circuitBreaker.MaxFailures THEN cf + 1 ELSE cf

RetryConfigs ==
    [MaxRetries : 0 .. MaxRetriesBound, Delay : Delays, Backoff : Backoffs]
CircuitBreakers ==
    [MaxFailures : 1 .. MaxFailuresBound, Timeout : {1}, ResetTimeout : {1}]

\* No call in progress.
CallIdle ==
    /\ pc = "idle" /\ entry = "Do" /\ req = Nil /\ attempt = 0 /\ lastErr = Nil
    /\ delay = 0 /\ ret = Nil /\ jsonErr = Nil
    /\ outcomes = <<>> /\ calls = 0 /\ waits = <<>> /\ tripAtStart = FALSE

\* NewClient, then SetRetryConfig and SetCircuitBreaker.
ClientInit ==
    /\ retryConfig \in RetryConfigs
    /\ circuitBreaker \in CircuitBreakers
    /\ consecFail = 0 /\ sinceTrip = 0
    /\ CallIdle

\* A caller enters Do (Get, Post, Put, Delete) or JSON (GetJSON, ...).
Call(e, r) ==
    /\ pc = "idle"
    /\ entry' = e /\ req' = r
    /\ attempt' = 0 /\ lastErr' = Nil
    /\ tripAtStart' = (consecFail >= circuitBreaker.MaxFailures
                        /\ sinceTrip < circuitBreaker.ResetTimeout)
    /\ IF LoopCond(0, retryConfig)
       THEN pc' = "loop" /\ ret' = ret
       ELSE pc' = (IF e = "JSON" THEN "json" ELSE "done")
            /\ ret' = ExhaustedReturn(retryConfig, Nil)
    /\ UNCHANGED <<retryConfig, circuitBreaker, delay, jsonErr, outcomes, calls,
                   waits, consecFail, sinceTrip>>
    /\ UNCHANGED <<rvars, hvars, kvars, dvars, pvars>>

\* One iteration of Do's loop up to the sleep: doRequest, then return, break or
\* compute the delay.
Attempt ==
    /\ pc = "loop"
    /\ \E t \in TransportOutcomes :
         LET r == doRequest(req, t) IN
         /\ outcomes' = Append(outcomes, r)
         /\ calls' = IF r.t = NotInvoked THEN calls ELSE calls + 1
         /\ consecFail' = Observe(consecFail, r)
         /\ sinceTrip' = IF r.t # NotInvoked /\ r.err # Nil THEN 0 ELSE sinceTrip
         /\ IF r.err = Nil
            THEN /\ ret' = SuccessReturn(r)
                 /\ pc' = AfterDo
                 /\ UNCHANGED <<lastErr, delay>>
            ELSE /\ lastErr' = NextLastErr(lastErr, r.err)
                 /\ IF IsLastAttempt(attempt, retryConfig)
                    THEN /\ ret' = ExhaustedReturn(retryConfig, lastErr')
                         /\ pc' = AfterDo
                         /\ delay' = delay
                    ELSE /\ \E d \in ToDuration(BackoffDelay(retryConfig, attempt)) :
                              delay' = d
                         /\ pc' = "sleep"
                         /\ ret' = ret
    /\ UNCHANGED <<retryConfig, circuitBreaker, entry, req, attempt, jsonErr,
                   waits, tripAtStart>>
    /\ UNCHANGED <<rvars, hvars, kvars, dvars, pvars>>

\* time.Sleep(delay), then attempt++ and the loop condition.
Sleep ==
    /\ pc = "sleep"
    /\ waits' = Append(waits, SleepTime(delay))
    /\ sinceTrip' = IF sinceTrip + SleepTime(delay) < circuitBreaker.ResetTimeout
                    THEN sinceTrip + SleepTime(delay)
                    ELSE circuitBreaker.ResetTimeout
    /\ attempt' = attempt + 1
    /\ IF LoopCond(attempt + 1, retryConfig)
       THEN pc' = "loop" /\ ret' = ret
       ELSE pc' = AfterDo /\ ret' = ExhaustedReturn(retryConfig, lastErr)
    /\ UNCHANGED <<retryConfig, circuitBreaker, entry, req, lastErr, delay, jsonErr,
                   outcomes, calls, consecFail, tripAtStart>>
    /\ UNCHANGED <<rvars, hvars, kvars, dvars, pvars>>

\* JSON's continuation after c.Do(req).
JSONReturn ==
    /\ pc = "json"
    /\ jsonErr' = JSONResult(ret)
    /\ pc' = "done"
    /\ UNCHANGED <<retryConfig, circuitBreaker, entry, req, attempt, lastErr, delay,
                   ret, outcomes, calls, waits, consecFail, sinceTrip, tripAtStart>>
    /\ UNCHANGED <<rvars, hvars, kvars, dvars, pvars>>

\* The caller takes the result; the call's locals are gone.
Return ==
    /\ pc = "done"
    /\ pc' = "idle" /\ entry' = "Do" /\ req' = Nil /\ attempt' = 0 /\ lastErr' = Nil
    /\ delay' = 0 /\ ret' = Nil /\ jsonErr' = Nil
    /\ outcomes' = <<>> /\ calls' = 0 /\ waits' = <<>> /\ tripAtStart' = FALSE
    /\ UNCHANGED <<retryConfig, circuitBreaker, consecFail, sinceTrip>>
    /\ UNCHANGED <<rvars, hvars, kvars, dvars, pvars>>

---------------------------------------------------------------------------
(* RateLimiter *)
(* The channel rl.requests carries time.Time values that no receive ever   *)
(* looks at (both receives in Wait discard the value), so the model keeps  *)
(* the number of tokens buffered in the channel, not their values.         *)

Callers == 1 .. NumCallers

\* The fill loop off by one: i <= burst.
InitialTokens_OneMore(b) == b + 1

\* A pool that is never created empty.
InitialTokens_AtLeastOne(b) == IF b = 0 THEN 1 ELSE b

\* NewRateLimiter: for i := 0; i < burst; i++ { rl.requests <- time.Now() }
InitialTokens(b) == b

\* The goroutine not sleeping before it puts the token back.
WakeTime_NoSleep(start, r) == start

\* The goroutine's sleep one unit of time short.
WakeTime_Early(start, r) == start + r - 1

\* When the goroutine's time.Sleep(rl.rate), begun at start, is over.
WakeTime(start, r) == start + r

\* A receive that leaves the token in the channel.
TakeToken_Keep(n) == n

\* <-rl.requests: one token leaves the channel.
TakeToken(n) == n - 1

\* Wait calls begun so far (a call in "spawn" is already in served).
Started == Len(served) + Cardinality({c \in Callers : wpc[c] = "blocked"})

\* Wait calls that have returned so far.
Returns == Len(served) - Cardinality({c \in Callers : wpc[c] = "spawn"})

\* NewRateLimiter(rate, burst) at time 0, nobody calling yet.
RateLimiterInit ==
    /\ burst \in 0 .. MaxBurst
    /\ rate \in 1 .. MaxRate
    /\ clock = 0
    /\ requests = InitialTokens(burst)
    /\ wpc = [c \in Callers |-> "idle"]
    /\ refills = EmptyBag
    /\ served = <<>>
    /\ returned = <<>>

\* The limiter the client model leaves alone: NewRateLimiter(1, 1), no caller.
RateLimiterQuiet ==
    /\ burst = 1 /\ rate = 1 /\ clock = 0
    /\ requests = InitialTokens(1)
    /\ wpc = [c \in Callers |-> "idle"]
    /\ refills = EmptyBag
    /\ served = <<>>
    /\ returned = <<>>

\* The client the limiter model leaves alone: NewClient's retry policy, no call.
ClientQuiet ==
    /\ retryConfig = [MaxRetries |-> 3, Delay |-> 1, Backoff |-> 2]
    /\ circuitBreaker = [MaxFailures |-> 1, Timeout |-> 1, ResetTimeout |-> 1]
    /\ consecFail = 0 /\ sinceTrip = 0
    /\ CallIdle

\* Wait, called: select { case <-rl.requests: } with a token in the channel.
WaitSelectToken(c) ==
    /\ wpc[c] = "idle"
    /\ Started < MaxWaits
    /\ clock <= MaxClock
    /\ requests > 0
    /\ requests' = TakeToken(requests)
    /\ served' = Append(served, [at |-> clock, blocked |-> FALSE])
    /\ wpc' = [wpc EXCEPT ![c] = "spawn"]
    /\ UNCHANGED <<burst, rate, clock, refills, returned>>
    /\ UNCHANGED <<cvars, hvars, kvars, dvars, pvars>>

\* Wait, called: select { ... default: } with the channel empty; the caller
\* goes on to the default branch's <-rl.requests.
WaitSelectDefault(c) ==
    /\ wpc[c] = "idle"
    /\ Started < MaxWaits
    /\ clock <= MaxClock
    /\ requests = 0
    /\ wpc' = [wpc EXCEPT ![c] = "blocked"]
    /\ UNCHANGED <<requests, burst, rate, clock, refills, served, returned>>
    /\ UNCHANGED <<cvars, hvars, kvars, dvars, pvars>>

\* Wait: the default branch's <-rl.requests, once a token is there.
WaitBlockedReceive(c) ==
    /\ wpc[c] = "blocked"
    /\ requests > 0
    /\ requests' = TakeToken(requests)
    /\ served' = Append(served, [at |-> clock, blocked |-> TRUE])
    /\ wpc' = [wpc EXCEPT ![c] = "spawn"]
    /\ UNCHANGED <<burst, rate, clock, refills, returned>>
    /\ UNCHANGED <<cvars, hvars, kvars, dvars, pvars>>

\* Two goroutines started for one token taken.
Spawned_Twice ==
    SetToBag({[st |-> "start", wake |-> 0]}) (+) SetToBag({[st |-> "start", wake |-> 0]})

\* Wait starting no goroutine: the token taken never comes back.
Spawned_None == EmptyBag

\* What one Wait starts: one goroutine, not yet asleep.
Spawned == SetToBag({[st |-> "start", wake |-> 0]})

\* Wait: go func() { ... }() and return.
WaitSpawn(c) ==
    /\ wpc[c] = "spawn"
    /\ refills' = refills (+) Spawned
    /\ wpc' = [wpc EXCEPT ![c] = "idle"]
    /\ returned' = Append(returned, clock)
    /\ UNCHANGED <<requests, burst, rate, clock, served>>
    /\ UNCHANGED <<cvars, hvars, kvars, dvars, pvars>>

\* The goroutine reaches time.Sleep(rl.rate).
RefillSleep(g) ==
    /\ BagIn(g, refills)
    /\ g.st = "start"
    /\ refills' = (refills (-) SetToBag({g}))
                    (+) SetToBag({[st |-> "sleeping", wake |-> WakeTime(clock, rate)]})
    /\ UNCHANGED <<requests, burst, rate, clock, wpc, served, returned>>
    /\ UNCHANGED <<cvars, hvars, kvars, dvars, pvars>>

\* The goroutine's sleep is over: rl.requests <- now, which needs room in the
\* channel.  (With burst = 0 the channel is unbuffered; no goroutine exists then.)
RefillSend(g) ==
    /\ BagIn(g, refills)
    /\ g.st = "sleeping"
    /\ clock >= g.wake
    /\ requests < burst
    /\ requests' = requests + 1
    /\ refills' = refills (-) SetToBag({g})
    /\ UNCHANGED <<burst, rate, clock, wpc, served, returned>>
    /\ UNCHANGED <<cvars, hvars, kvars, dvars, pvars>>

\* Time passes.
Tick ==
    /\ clock < MaxClock
    /\ clock' = clock + 1
    /\ returned' = SelectSeq(returned, LAMBDA at : at + rate > clock + 1)
    /\ UNCHANGED <<requests, burst, rate, wpc, refills, served>>
    /\ UNCHANGED <<cvars, hvars, kvars, dvars, pvars>>

\* Time goes on past MaxClock for as long as a goroutine is asleep; no call of
\* Wait begins that late.
TickOn ==
    /\ clock >= MaxClock
    /\ \E g \in BagToSet(refills) : g.st = "sleeping" /\ g.wake > clock
    /\ clock' = clock + 1
    /\ returned' = SelectSeq(returned, LAMBDA at : at + rate > clock + 1)
    /\ UNCHANGED <<requests, burst, rate, wpc, refills, served>>
    /\ UNCHANGED <<cvars, hvars, kvars, dvars, pvars>>

---------------------------------------------------------------------------
(* The headers of the outgoing request: doRequest and WithContext run the   *)
(* same three steps on httpReq.Header.  A Go map is ranged over in no fixed *)
(* order, so each loop visits its keys in any order.                        *)

HeaderKeys == {"Content-Type", "content-type", "X-Id"}
HeaderValues == {"v1", "v2"}
AutoContentType == "application/json"

\* The maps a caller can pass: any keys, any values.
HeaderMaps == UNION { [D -> HeaderValues] : D \in SUBSET HeaderKeys }

\* http.Header.Set stores under textproto.CanonicalMIMEHeaderKey(key).
Canon(k) == IF k = "content-type" THEN "Content-Type" ELSE k

\* make(http.Header)
EmptyHeader == [c \in {} |-> "v1"]

\* Header.Add in place of Header.Set: the first value stored stays the one sent.
SetHeader_KeepFirst(h, k, v) ==
    IF Canon(k) \in DOMAIN h THEN h
    ELSE [c \in DOMAIN h \cup {Canon(k)} |-> IF c = Canon(k) THEN v ELSE h[c]]

\* httpReq.Header.Set(key, value)
SetHeader(h, k, v) ==
    [c \in DOMAIN h \cup {Canon(k)} |-> IF c = Canon(k) THEN v ELSE h[c]]

\* http.NewRequest succeeded; the header loops are about to run.
HeadersInit ==
    /\ hdefaults \in HeaderMaps
    /\ hreq \in HeaderMaps
    /\ hbody \in BOOLEAN
    /\ hpc = "defaults"
    /\ htodo = DOMAIN hdefaults
    /\ sent = EmptyHeader

\* No request being built.
HeadersQuiet ==
    /\ hdefaults = EmptyHeader /\ hreq = EmptyHeader /\ hbody = FALSE
    /\ hpc = "done" /\ htodo = {} /\ sent = EmptyHeader

\* for key, value := range c.defaultHeaders { httpReq.Header.Set(key, value) }
SetDefault(k) ==
    /\ hpc = "defaults"
    /\ k \in htodo
    /\ sent' = SetHeader(sent, k, hdefaults[k])
    /\ htodo' = htodo \ {k}
    /\ UNCHANGED <<hdefaults, hreq, hbody, hpc>>
    /\ UNCHANGED <<cvars, rvars, kvars, dvars, pvars>>

\* The first loop is over; the second begins.
EndDefaults ==
    /\ hpc = "defaults"
    /\ htodo = {}
    /\ hpc' = "request"
    /\ htodo' = DOMAIN hreq
    /\ UNCHANGED <<hdefaults, hreq, hbody, sent>>
    /\ UNCHANGED <<cvars, rvars, kvars, dvars, pvars>>

\* A loop that deletes each key it has copied.
Ranged_Delete(h, k) == [x \in DOMAIN h \ {k} |-> h[x]]

\* The map a range loop leaves behind after visiting key k: the map.
Ranged(h, k) == h

\* for key, value := range req.Headers { httpReq.Header.Set(key, value) }
SetRequest(k) ==
    /\ hpc = "request"
    /\ k \in htodo
    /\ sent' = SetHeader(sent, k, hreq[k])
    /\ htodo' = htodo \ {k}
    /\ hreq' = Ranged(hreq, k)
    /\ UNCHANGED <<hdefaults, hbody, hpc>>
    /\ UNCHANGED <<cvars, rvars, kvars, dvars, pvars>>

\* The second loop is over.
EndRequest ==
    /\ hpc = "request"
    /\ htodo = {}
    /\ hpc' = "ctype"
    /\ UNCHANGED <<hdefaults, hreq, hbody, htodo, sent>>
    /\ UNCHANGED <<cvars, rvars, kvars, dvars, pvars>>

\* if req.Body != nil { httpReq.Header.Set("Content-Type", "application/json") }
SetContentType ==
    /\ hpc = "ctype"
    /\ sent' = IF hbody THEN SetHeader(sent, "Content-Type", AutoContentType) ELSE sent
    /\ hpc' = "done"
    /\ UNCHANGED <<hdefaults, hreq, hbody, htodo>>
    /\ UNCHANGED <<cvars, rvars, kvars, dvars, pvars>>

---------------------------------------------------------------------------
(* WithContext: one call, and the caller's context, which the caller may   *)
(* cancel at any moment.  The context reaches http.NewRequestWithContext   *)
(* and nothing else: the round trip is the only place where the call can   *)
(* observe a cancellation.                                                 *)

\* The error httpClient.Do returns once the request's context is cancelled:
\* "request failed: ..." wrapping context.Canceled (cause 0; the transport's
\* own failures are causes 1 and 2).
CanceledErr == [kind |-> "request", cause |-> 0]

ContextQuiet ==
    /\ wcpc = "idle" /\ wcreq = Nil /\ wcctx = "live" /\ wcret = Nil
    /\ wchist = [calls |-> 0, cancelledInFlight |-> FALSE]

\* A caller enters WithContext(ctx, r): marshal the body, build the request
\* and the headers, and hand the request to httpClient.Do.
WCCall(r) ==
    /\ wcpc = "idle"
    /\ wcreq' = r
    /\ LET b == doRequest(r, [kind |-> "connErr", id |-> 1]) IN
       IF b.t = NotInvoked
       THEN /\ wcpc' = "done"
            /\ wcret' = [resp |-> Nil, err |-> b.err]
            /\ wchist' = wchist
       ELSE /\ wcpc' = "inflight"
            /\ wcret' = wcret
            /\ wchist' = [wchist EXCEPT !.calls = @ + 1]
    /\ UNCHANGED wcctx
    /\ UNCHANGED <<cvars, rvars, hvars, dvars, pvars>>

\* The caller cancels ctx.
CtxCancel ==
    /\ wcctx = "live"
    /\ wcctx' = "cancelled"
    /\ wchist' = [wchist EXCEPT !.cancelledInFlight = (wcpc = "inflight")]
    /\ UNCHANGED <<wcpc, wcreq, wcret>>
    /\ UNCHANGED <<cvars, rvars, hvars, dvars, pvars>>

\* WithContext starting over after a failure of the transport.
WCAfterTransport_Retry(r) ==
    IF r.err # Nil /\ r.err # CanceledErr THEN "idle" ELSE "done"

\* Where WithContext goes once the transport has answered: it returns.
WCAfterTransport(r) == "done"

\* httpClient.Do and io.ReadAll are over: with the context cancelled the round
\* trip is aborted with the context's error, otherwise the transport's outcome
\* is returned as doRequest would return it.  There is no second attempt.
WCTransportEnd(t) ==
    /\ wcpc = "inflight"
    /\ wcret' = IF wcctx = "cancelled"
                THEN [resp |-> Nil, err |-> CanceledErr]
                ELSE LET r == doRequest(wcreq, t) IN [resp |-> r.resp, err |-> r.err]
    /\ wcpc' = WCAfterTransport(wcret')
    /\ UNCHANGED <<wcreq, wcctx, wchist>>
    /\ UNCHANGED <<cvars, rvars, hvars, dvars, pvars>>

\* The caller takes the result; the next call comes with a context of its own.
WCReturn ==
    /\ wcpc = "done"
    /\ wcpc' = "idle" /\ wcreq' = Nil /\ wcctx' = "live" /\ wcret' = Nil
    /\ wchist' = [calls |-> 0, cancelledInFlight |-> FALSE]
    /\ UNCHANGED <<cvars, rvars, hvars, dvars, pvars>>

---------------------------------------------------------------------------
(* Concurrent calls of Do on one Client.  Each call has its own locals     *)
(* (attempt, lastErr); the Client's fields are only read.  httpClient.Do   *)
(* blocks, so an attempt is two steps: the transport is invoked, and later *)
(* it answers.                                                             *)

DoCalls == 1 .. NumCalls

ConcurrentRequests ==
    { [Method |-> "GET",  URL |-> "/items", Body |-> "nil"],
      [Method |-> "POST", URL |-> "/items", Body |-> "chan"] }

ConcurrentOutcomes ==
    { [kind |-> "connErr", id |-> 1],
      [kind |-> "status", code |-> 200, body |-> "json"] }

\* A call that has not started.
DoIdle == [pc |-> "idle", req |-> Nil, attempt |-> 0, lastErr |-> Nil, ret |-> Nil, n |-> 0]

\* The circuit breaker of the design (Closed, Open, Half-Open), kept beside the
\* program as an observer of its transport invocations: the program itself
\* holds three configuration numbers and no breaker state.
BreakerClosed ==
    [state |-> "closed", fails |-> 0, cooled |-> FALSE, reopened |-> FALSE,
     extra |-> FALSE, early |-> FALSE]

\* The observer at a transport invocation, where Allow() would have been asked.
BreakerAtInvoke(b) ==
    IF b.state = "closed" THEN b
    ELSE IF b.state = "halfopen" THEN [b EXCEPT !.extra = TRUE]
    ELSE IF b.cooled THEN [b EXCEPT !.state = "halfopen"]
    ELSE IF b.reopened THEN [b EXCEPT !.early = TRUE]
    ELSE b

\* The observer at a transport answer, where RecordSuccess / RecordFailure
\* would have been called.
BreakerAtAnswer(b, ok) ==
    IF b.state = "closed"
    THEN IF ok THEN [b EXCEPT !.fails = 0]
         ELSE IF b.fails + 1 >= circuitBreaker.MaxFailures
         THEN [b EXCEPT !.state = "open", !.fails = 0, !.cooled = FALSE,
                        !.reopened = FALSE]
         ELSE [b EXCEPT !.fails = @ + 1]
    ELSE IF b.state = "halfopen"
    THEN IF ok THEN [b EXCEPT !.state = "closed", !.fails = 0, !.reopened = FALSE]
         ELSE [b EXCEPT !.state = "open", !.cooled = FALSE, !.reopened = TRUE]
    ELSE b

ConcurrentQuiet ==
    /\ dcall = [p \in DoCalls |-> DoIdle]
    /\ brk = BreakerClosed

\* One counter for all calls: every call's attempt moves when one call's does.
NextAttempt_Shared(d, p) == [q \in DOMAIN d |-> [d[q] EXCEPT !.attempt = @ + 1]]

\* attempt++ of call p
NextAttempt(d, p) == [d EXCEPT ![p].attempt = @ + 1]

\* Do after doRequest returned r: return the response, break out of the loop
\* on the last attempt, or go to sleep.
AfterAttempt(c, r) ==
    IF r.err = Nil
    THEN [c EXCEPT !.pc = "done", !.ret = SuccessReturn(r)]
    ELSE IF IsLastAttempt(c.attempt, retryConfig)
    THEN [c EXCEPT !.lastErr = NextLastErr(c.lastErr, r.err),
                   !.pc = "done",
                   !.ret = ExhaustedReturn(retryConfig, NextLastErr(c.lastErr, r.err))]
    ELSE [c EXCEPT !.lastErr = NextLastErr(c.lastErr, r.err), !.pc = "sleep"]

\* Call p enters Do.
DoEnter(p, r) ==
    /\ dcall[p].pc = "idle"
    /\ dcall' = [dcall EXCEPT ![p] =
         IF LoopCond(0, retryConfig)
         THEN [DoIdle EXCEPT !.pc = "loop", !.req = r]
         ELSE [DoIdle EXCEPT !.pc = "done", !.req = r,
                             !.ret = ExhaustedReturn(retryConfig, Nil)]]
    /\ UNCHANGED brk
    /\ UNCHANGED <<cvars, rvars, hvars, kvars, pvars>>

\* Call p runs doRequest up to httpClient.Do: the request is built and handed
\* to the transport, or the build fails and the attempt is over.
TransportStart(p) ==
    /\ dcall[p].pc = "loop"
    /\ LET c == [dcall[p] EXCEPT !.n = @ + 1]
           b == doRequest(c.req, [kind |-> "connErr", id |-> 1])
       IN IF b.t = NotInvoked
          THEN /\ dcall' = [dcall EXCEPT ![p] = AfterAttempt(c, b)]
               /\ brk' = brk
          ELSE /\ dcall' = [dcall EXCEPT ![p] = [c EXCEPT !.pc = "inflight"]]
               /\ brk' = BreakerAtInvoke(brk)
    /\ UNCHANGED <<cvars, rvars, hvars, kvars, pvars>>

\* The transport answers call p with t; doRequest returns and Do goes on.
TransportEnd(p, t) ==
    /\ dcall[p].pc = "inflight"
    /\ LET r == doRequest(dcall[p].req, t) IN
       /\ dcall' = [dcall EXCEPT ![p] = AfterAttempt(dcall[p], r)]
       /\ brk' = BreakerAtAnswer(brk, r.err = Nil)
    /\ UNCHANGED <<cvars, rvars, hvars, kvars, pvars>>

\* time.Sleep(delay) of call p is over: attempt++ and the loop condition.
DoSleep(p) ==
    /\ dcall[p].pc = "sleep"
    /\ LET d == NextAttempt(dcall, p) IN
       dcall' = [d EXCEPT ![p] =
         IF LoopCond(d[p].attempt, retryConfig)
         THEN [d[p] EXCEPT !.pc = "loop"]
         ELSE [d[p] EXCEPT !.pc = "done",
                           !.ret = ExhaustedReturn(retryConfig, d[p].lastErr)]]
    /\ UNCHANGED brk
    /\ UNCHANGED <<cvars, rvars, hvars, kvars, pvars>>

\* ResetTimeout has passed since the observer's breaker opened.
CooldownElapses ==
    /\ brk.state = "open"
    /\ ~brk.cooled
    /\ brk' = [brk EXCEPT !.cooled = TRUE]
    /\ UNCHANGED dcall
    /\ UNCHANGED <<cvars, rvars, hvars, kvars, pvars>>

---------------------------------------------------------------------------
(* Cron (package time).  A schedule is a string; the model writes a string  *)
(* as the sequence of its characters, so that strings.Fields and            *)
(* strconv.Atoi are computed as the library computes them.  Time is in      *)
(* whole minutes, the period of Start's ticker.                             *)

\* The README's "every 5 minutes": "* * * * */5"
EveryFiveMinutes == <<"*", " ", "*", " ", "*", " ", "*", " ", "*", "/", "5">>

Schedules ==
    { EveryFiveMinutes,
      <<"*", " ", "*", " ", "*", " ", "*", " ", "*">>,
      <<"*", " ", "*", " ", "*", " ", "*", " ", "5">>,
      <<"*", " ", " ", "*", " ", "*", " ", "*", " ", "2">>,
      <<"*", " ", "*", " ", "*", " ", "*">>,
      <<"0", " ", "*", " ", "*", " ", "*", " ", "*">> }

\* strings.Fields: the maximal runs of non-space characters, in order.
RECURSIVE FieldsLoop(_, _, _, _)
FieldsLoop(str, i, cur, acc) ==
    IF i > Len(str)
    THEN IF cur = <<>> THEN acc ELSE Append(acc, cur)
    ELSE IF str[i] = " "
    THEN FieldsLoop(str, i + 1, <<>>, IF cur = <<>> THEN acc ELSE Append(acc, cur))
    ELSE FieldsLoop(str, i + 1, Append(cur, str[i]), acc)

Fields(str) == FieldsLoop(str, 1, <<>>, <<>>)

DecimalDigits == <<"0", "1", "2", "3", "4", "5", "6", "7", "8", "9">>

IsDigit(ch) == \E d \in 1 .. 10 : DecimalDigits[d] = ch

DigitValue(ch) == (CHOOSE d \in 1 .. 10 : DecimalDigits[d] = ch) - 1

RECURSIVE AtoiLoop(_, _, _)
AtoiLoop(str, i, n) ==
    IF i > Len(str) THEN n ELSE AtoiLoop(str, i + 1, 10 * n + DigitValue(str[i]))

\* strconv.Atoi: an optional sign and one or more decimal digits, else an error.
Atoi(str) ==
    LET signed == Len(str) >= 1 /\ str[1] \in {"+", "-"}
        digits == IF signed THEN SubSeq(str, 2, Len(str)) ELSE str
    IN IF digits = <<>> \/ \E i \in 1 .. Len(digits) : ~IsDigit(digits[i])
       THEN [ok |-> FALSE, n |-> 0]
       ELSE [ok |-> TRUE,
             n |-> IF signed /\ str[1] = "-" THEN 0 - AtoiLoop(digits, 1, 0)
                   ELSE AtoiLoop(digits, 1, 0)]

\* parseSchedule at time now: the next run, or an error.
parseSchedule(schedule, now) ==
    LET parts == Fields(schedule) IN
    IF Len(parts) # 5
    THEN [err |-> "invalid schedule format", next |-> 0]
    ELSE IF \A i \in 1 .. 4 : parts[i] = <<"*">>
    THEN IF parts[5] = <<"*">>
         THEN [err |-> "nil", next |-> now + 1]
         ELSE IF Atoi(parts[5]).ok
         THEN [err |-> "nil", next |-> now + Atoi(parts[5]).n]
         ELSE [err |-> "unsupported schedule format", next |-> 0]
    ELSE [err |-> "unsupported schedule format", next |-> 0]

\* NewCron()
CronInit ==
    /\ cjobs = <<>> /\ cstarted = FALSE /\ cnow = 0 /\ cadds = <<>> /\ cruns = <<>>

CronQuiet == CronInit

\* AddJob(id, schedule, fn), before Start (the slice is not synchronised).
AddJob(schedule) ==
    /\ ~cstarted
    /\ Len(cadds) < MaxAdds
    /\ LET r == parseSchedule(schedule, cnow) IN
       /\ cadds' = Append(cadds, [schedule |-> schedule, err |-> r.err])
       /\ IF r.err = "nil"
          THEN /\ cjobs' = Append(cjobs, [Schedule |-> schedule, NextRun |-> r.next,
                                          LastRun |-> 0])
               /\ cruns' = Append(cruns, <<>>)
          ELSE UNCHANGED <<cjobs, cruns>>
    /\ UNCHANGED <<cstarted, cnow>>
    /\ UNCHANGED <<httpvars, svars, mvars>>

\* Start(): the goroutine and its one-minute ticker.
Start ==
    /\ ~cstarted
    /\ cstarted' = TRUE
    /\ UNCHANGED <<cjobs, cnow, cadds, cruns>>
    /\ UNCHANGED <<httpvars, svars, mvars>>

\* A minute passes before Start.
CronIdleMinute ==
    /\ ~cstarted
    /\ cnow < MaxCronClock
    /\ cnow' = cnow + 1
    /\ UNCHANGED <<cjobs, cstarted, cadds, cruns>>
    /\ UNCHANGED <<httpvars, svars, mvars>>

\* A minute passes and the ticker fires: every job that is due is run and
\* given its next run.
CronTick ==
    /\ cstarted
    /\ cnow < MaxCronClock
    /\ cnow' = cnow + 1
    /\ cjobs' = [j \in DOMAIN cjobs |->
                   IF cjobs[j].NextRun <= cnow + 1
                   THEN LET r == parseSchedule(cjobs[j].Schedule, cnow + 1) IN
                        [cjobs[j] EXCEPT !.LastRun = cnow + 1,
                                         !.NextRun = IF r.err = "nil" THEN r.next ELSE @]
                   ELSE cjobs[j]]
    /\ cruns' = [j \in DOMAIN cruns |->
                   IF cjobs[j].NextRun <= cnow + 1
                   THEN Append(cruns[j], cnow + 1) ELSE cruns[j]]
    /\ UNCHANGED <<cstarted, cadds>>
    /\ UNCHANGED <<httpvars, svars, mvars>>

---------------------------------------------------------------------------
(* SanitizePath (package sanitize).  A path is the sequence of its bytes;   *)
(* "NUL" stands for the byte 0.                                             *)

PathBytes == {".", "/", "\\", "NUL", "a"}

Paths == UNION { [1 .. n -> PathBytes] : n \in 0 .. MaxPathLen }

\* strings.ReplaceAll(str, old, new) for a non-empty old: the non-overlapping
\* occurrences of old, found from the left, are replaced.
RECURSIVE ReplaceFrom(_, _, _, _)
ReplaceFrom(str, i, old, new) ==
    IF i > Len(str) THEN <<>>
    ELSE IF i + Len(old) - 1 <= Len(str) /\ SubSeq(str, i, i + Len(old) - 1) = old
    THEN new \o ReplaceFrom(str, i + Len(old), old, new)
    ELSE <<str[i]>> \o ReplaceFrom(str, i + 1, old, new)

ReplaceAll(str, old, new) == ReplaceFrom(str, 1, old, new)

\* strings.Contains
Contains(str, sub) ==
    \E i \in 1 .. Len(str) - Len(sub) + 1 : SubSeq(str, i, i + Len(sub) - 1) = sub

\* SanitizePath(path)
SanitizePath(path) ==
    LET p1 == ReplaceAll(path, <<".", ".", "/">>, <<>>)
        p2 == ReplaceAll(p1, <<".", ".", "\\">>, <<>>)
        p3 == ReplaceAll(p2, <<".", ".">>, <<>>)
        p4 == ReplaceAll(p3, <<"NUL">>, <<>>)
    IN ReplaceAll(p4, <<"\\">>, <<"/">>)

\* A caller is about to pass some path.
SanitizeInit == spath \in Paths /\ spc = "called" /\ sout = <<>>

SanitizeQuiet == spath = <<>> /\ spc = "returned" /\ sout = <<>>

\* The call returns.
SanitizeReturn ==
    /\ spc = "called"
    /\ sout' = SanitizePath(spath)
    /\ spc' = "returned"
    /\ UNCHANGED spath
    /\ UNCHANGED <<httpvars, tvars, mvars>>

---------------------------------------------------------------------------
(* Migrator (package db; package gq has the same two loops over gorm).      *)
(* The migrations table is the sequence of its rows in the order they were  *)
(* inserted; every statement and every Up or Down may fail.                 *)

Versions == {"v1", "v2"}

\* SELECT COUNT(*) FROM migrations WHERE version = $1, with no check at all
Count_Zero(table, version) == 0

\* SELECT COUNT(*) FROM migrations WHERE version = $1
Count(table, version) ==
    Cardinality({r \in DOMAIN table : table[r].version = version})

\* SELECT ... ORDER BY applied_at DESC: every order of the rows in which
\* applied_at never increases; rows of one timestamp come in any order.
OrderByAppliedAtDesc(table) ==
    LET n == Len(table)
        orders == { q \in [1 .. n -> 1 .. n] :
                      /\ \A a, b \in 1 .. n : a # b => q[a] # q[b]
                      /\ \A a, b \in 1 .. n :
                            a < b => table[q[a]].applied_at >= table[q[b]].applied_at }
    IN { [k \in 1 .. n |-> table[q[k]].version] : q \in orders }

\* LIMIT $1
Limit(rows, count) ==
    SubSeq(rows, 1, IF count < Len(rows) THEN count ELSE Len(rows))

\* The versions in the table, the most recently applied first.
NewestFirst(table) == [k \in 1 .. Len(table) |-> table[Len(table) + 1 - k].version]

\* The first registered migration with this version, 0 for none.
FindMigration(version) ==
    IF \E i \in DOMAIN migrations : migrations[i] = version
    THEN CHOOSE i \in DOMAIN migrations :
            /\ migrations[i] = version
            /\ \A j \in 1 .. i - 1 : migrations[j] # version
    ELSE 0

\* NewMigrator(db) on an empty database
MigratorInit ==
    /\ migrations = <<>> /\ mtable = <<>> /\ mclock = 0
    /\ mpc = "idle" /\ mi = 0 /\ mversions = <<>> /\ mcalls = 0
    /\ mhist = [failed |-> FALSE, rollbacks |-> FALSE, last |-> "none", n |-> 0,
                clean |-> TRUE, ups |-> <<>>, downs |-> <<>>, expect |-> <<>>]

MigratorQuiet == MigratorInit

\* AddMigration(migration): appended, whatever its version.
AddMigration(version) ==
    /\ mpc = "idle"
    /\ Len(migrations) < MaxMigrations
    /\ migrations' = Append(migrations, version)
    /\ UNCHANGED <<mtable, mclock, mpc, mi, mversions, mcalls, mhist>>
    /\ UNCHANGED <<httpvars, tvars, svars>>

\* RunMigrations(): CreateMigrationsTable, then the loop starts.
RunMigrations ==
    /\ mpc = "idle"
    /\ mcalls < MaxMigCalls
    /\ mcalls' = mcalls + 1
    /\ \E ok \in BOOLEAN :
         /\ mhist' = [mhist EXCEPT !.last = "run", !.n = Len(migrations),
                                   !.failed = @ \/ ~ok, !.clean = ok,
                                   !.downs = <<>>, !.expect = <<>>]
         /\ IF ok /\ migrations # <<>>
            THEN mpc' = "check" /\ mi' = 1
            ELSE mpc' = "idle" /\ mi' = 0
    /\ UNCHANGED <<migrations, mtable, mclock, mversions>>
    /\ UNCHANGED <<httpvars, tvars, svars>>

\* The loop of RunMigrations moves to the next migration, or returns nil.
RunNext ==
    IF mi < Len(migrations)
    THEN mpc' = "check" /\ mi' = mi + 1
    ELSE mpc' = "idle" /\ mi' = 0

\* The status check of migration mi.
RunCheck ==
    /\ mpc = "check"
    /\ \E ok \in BOOLEAN :
         IF ~ok
         THEN /\ mpc' = "idle" /\ mi' = 0
              /\ mhist' = [mhist EXCEPT !.failed = TRUE, !.clean = FALSE]
         ELSE /\ IF Count(mtable, migrations[mi]) > 0
                 THEN RunNext
                 ELSE mpc' = "up" /\ mi' = mi
              /\ UNCHANGED mhist
    /\ UNCHANGED <<migrations, mtable, mclock, mversions, mcalls>>
    /\ UNCHANGED <<httpvars, tvars, svars>>

\* migration.Up(m.db)
RunUp ==
    /\ mpc = "up"
    /\ \E ok \in BOOLEAN :
         /\ mhist' = [mhist EXCEPT !.ups = Append(@, [i |-> mi, ok |-> ok]),
                                   !.failed = @ \/ ~ok, !.clean = @ /\ ok]
         /\ IF ok THEN mpc' = "insert" /\ mi' = mi ELSE mpc' = "idle" /\ mi' = 0
    /\ UNCHANGED <<migrations, mtable, mclock, mversions, mcalls>>
    /\ UNCHANGED <<httpvars, tvars, svars>>

\* INSERT INTO migrations: applied_at is the database's clock, which may
\* or may not have moved on since the last row.
RunRecord ==
    /\ mpc = "insert"
    /\ \E ok \in BOOLEAN :
         IF ok
         THEN /\ \E dt \in 0 .. 1 :
                   /\ mclock' = mclock + dt
                   /\ mtable' = Append(mtable, [version |-> migrations[mi],
                                                applied_at |-> mclock + dt])
              /\ RunNext
              /\ UNCHANGED mhist
         ELSE /\ mpc' = "idle" /\ mi' = 0
              /\ mhist' = [mhist EXCEPT !.failed = TRUE, !.clean = FALSE]
              /\ UNCHANGED <<mtable, mclock>>
    /\ UNCHANGED <<migrations, mversions, mcalls>>
    /\ UNCHANGED <<httpvars, tvars, svars>>

\* RollbackMigrations(count): the query and the scan of its rows.
RollbackMigrations(count) ==
    /\ mpc = "idle"
    /\ mcalls < MaxMigCalls
    /\ mcalls' = mcalls + 1
    /\ \E ok \in BOOLEAN, rows \in OrderByAppliedAtDesc(mtable) :
         /\ mversions' = IF ok THEN Limit(rows, count) ELSE <<>>
         /\ mhist' = [mhist EXCEPT !.last = "rollback", !.rollbacks = TRUE,
                                   !.failed = @ \/ ~ok, !.clean = ok,
                                   !.downs = <<>>,
                                   !.expect = Limit(NewestFirst(mtable), count)]
         /\ IF ok /\ Limit(rows, count) # <<>>
            THEN mpc' = "down" /\ mi' = 1
            ELSE mpc' = "idle" /\ mi' = 0
    /\ UNCHANGED <<migrations, mtable, mclock>>
    /\ UNCHANGED <<httpvars, tvars, svars>>

\* The migration of version mversions[mi] is looked up and its Down is run.
RollbackDown ==
    /\ mpc = "down"
    /\ IF FindMigration(mversions[mi]) = 0
       THEN /\ mpc' = "idle" /\ mi' = 0
            /\ mhist' = [mhist EXCEPT !.failed = TRUE, !.clean = FALSE]
       ELSE \E ok \in BOOLEAN :
              /\ mhist' = [mhist EXCEPT
                             !.downs = Append(@, [version |-> mversions[mi], ok |-> ok]),
                             !.failed = @ \/ ~ok, !.clean = @ /\ ok]
              /\ IF ok THEN mpc' = "delete" /\ mi' = mi ELSE mpc' = "idle" /\ mi' = 0
    /\ UNCHANGED <<migrations, mtable, mclock, mversions, mcalls>>
    /\ UNCHANGED <<httpvars, tvars, svars>>

\* DELETE FROM migrations WHERE version = $1
RollbackRemove ==
    /\ mpc = "delete"
    /\ \E ok \in BOOLEAN :
         IF ok
         THEN /\ mtable' = SelectSeq(mtable, LAMBDA r : r.version # mversions[mi])
              /\ IF mi < Len(mversions)
                 THEN mpc' = "down" /\ mi' = mi + 1
                 ELSE mpc' = "idle" /\ mi' = 0
              /\ UNCHANGED mhist
         ELSE /\ mpc' = "idle" /\ mi' = 0
              /\ mhist' = [mhist EXCEPT !.failed = TRUE, !.clean = FALSE]
              /\ UNCHANGED mtable
    /\ UNCHANGED <<migrations, mclock, mversions, mcalls>>
    /\ UNCHANGED <<httpvars, tvars, svars>>

PackagesQuiet == CronQuiet /\ SanitizeQuiet /\ MigratorQuiet

HttpQuiet ==
    ClientQuiet /\ RateLimiterQuiet /\ HeadersQuiet /\ ContextQuiet /\ ConcurrentQuiet

---------------------------------------------------------------------------
(* The Client: calls of Do and JSON, one at a time *)

Init ==
    /\ ClientInit /\ RateLimiterQuiet /\ HeadersQuiet /\ ContextQuiet /\ ConcurrentQuiet
    /\ PackagesQuiet

Next ==
    \/ \E e \in {"Do", "JSON"}, r \in Requests : Call(e, r)
    \/ Attempt
    \/ Sleep
    \/ JSONReturn
    \/ Return

Spec == Init /\ [][Next]_vars

(* The RateLimiter: concurrent callers of Wait, the refill goroutines, the clock *)

InitRateLimiter ==
    /\ ClientQuiet /\ RateLimiterInit /\ HeadersQuiet /\ ContextQuiet /\ ConcurrentQuiet
    /\ PackagesQuiet

NextRateLimiter ==
    \/ \E c \in Callers : WaitSelectToken(c)
    \/ \E c \in Callers : WaitSelectDefault(c)
    \/ \E c \in Callers : WaitBlockedReceive(c)
    \/ \E c \in Callers : WaitSpawn(c)
    \/ \E g \in BagToSet(refills) : RefillSleep(g)
    \/ \E g \in BagToSet(refills) : RefillSend(g)
    \/ Tick

SpecRateLimiter == InitRateLimiter /\ [][NextRateLimiter]_vars

\* The same under fair scheduling and advancing time: a goroutine that can run
\* does run (the callers in Wait, the refill goroutines), the clock goes on,
\* and a receiver parked on the channel gets a token that arrives (the
\* runtime hands a sent value to the waiting receiver).  Nothing obliges a
\* caller to call Wait.
FairRateLimiter ==
    /\ \A c \in Callers : WF_vars(WaitSpawn(c)) /\ SF_vars(WaitBlockedReceive(c))
    /\ WF_vars(\E g \in BagToSet(refills) : RefillSleep(g))
    /\ WF_vars(\E g \in BagToSet(refills) : RefillSend(g))
    /\ WF_vars(Tick) /\ WF_vars(TickOn)

NextRateLimiterLive == NextRateLimiter \/ TickOn

SpecRateLimiterLive ==
    InitRateLimiter /\ [][NextRateLimiterLive]_vars /\ FairRateLimiter

(* The header loops of one request *)

InitHeaders ==
    /\ ClientQuiet /\ RateLimiterQuiet /\ HeadersInit /\ ContextQuiet /\ ConcurrentQuiet
    /\ PackagesQuiet

NextHeaders ==
    \/ \E k \in HeaderKeys : SetDefault(k)
    \/ EndDefaults
    \/ \E k \in HeaderKeys : SetRequest(k)
    \/ EndRequest
    \/ SetContentType

SpecHeaders == InitHeaders /\ [][NextHeaders]_vars

(* WithContext and the caller's context *)

InitContext ==
    /\ ClientInit /\ RateLimiterQuiet /\ HeadersQuiet /\ ContextQuiet /\ ConcurrentQuiet
    /\ PackagesQuiet

NextContext ==
    \/ \E r \in Requests : WCCall(r)
    \/ CtxCancel
    \/ \E t \in TransportOutcomes : WCTransportEnd(t)
    \/ WCReturn

SpecContext == InitContext /\ [][NextContext]_vars

(* Concurrent calls of Do *)

InitConcurrent ==
    /\ ClientInit /\ retryConfig.Delay = 1 /\ retryConfig.Backoff = 2
    /\ RateLimiterQuiet /\ HeadersQuiet /\ ContextQuiet /\ ConcurrentQuiet
    /\ PackagesQuiet

NextConcurrent ==
    \/ \E p \in DoCalls, r \in ConcurrentRequests : DoEnter(p, r)
    \/ \E p \in DoCalls : TransportStart(p)
    \/ \E p \in DoCalls, t \in ConcurrentOutcomes : TransportEnd(p, t)
    \/ \E p \in DoCalls : DoSleep(p)
    \/ CooldownElapses

SpecConcurrent == InitConcurrent /\ [][NextConcurrent]_vars

(* Every entry point, one operation at a time: calls of Do and JSON and calls *)
(* of WithContext on one Client, or the header loops of one request.       *)

InitFrame == Init \/ InitHeaders

NextFrame ==
    \/ wcpc = "idle" /\ HeadersQuiet /\ Next
    \/ pc = "idle" /\ HeadersQuiet /\ NextContext
    \/ NextHeaders

SpecFrame == InitFrame /\ [][NextFrame]_vars

---------------------------------------------------------------------------
(* The scheduler: jobs are added, Start is called, minutes pass. *)

InitCron == HttpQuiet /\ CronInit /\ SanitizeQuiet /\ MigratorQuiet

NextCron ==
    \/ \E schedule \in Schedules : AddJob(schedule)
    \/ Start
    \/ CronIdleMinute
    \/ CronTick

SpecCron == InitCron /\ [][NextCron]_vars

---------------------------------------------------------------------------
(* SanitizePath applied to every path of the bounded alphabet. *)

InitSanitize == HttpQuiet /\ CronQuiet /\ SanitizeInit /\ MigratorQuiet

NextSanitize == SanitizeReturn

SpecSanitize == InitSanitize /\ [][NextSanitize]_vars

---------------------------------------------------------------------------
(* The migrator: migrations are registered, run and rolled back. *)

InitMigrator == HttpQuiet /\ CronQuiet /\ SanitizeQuiet /\ MigratorInit

NextMigrator ==
    \/ \E version \in Versions : AddMigration(version)
    \/ RunMigrations
    \/ RunCheck
    \/ RunUp
    \/ RunRecord
    \/ \E count \in 0 .. MaxCount : RollbackMigrations(count)
    \/ RollbackDown
    \/ RollbackRemove

SpecMigrator == InitMigrator /\ [][NextMigrator]_vars

---------------------------------------------------------------------------
(* Properties of Client.Do and Client.JSON *)

\* Do has returned: ret is its result (JSON may still be running).
DoReturned == pc \in {"json", "done"}

\* The i-th doRequest of the call reached the transport, and the transport failed.
TransportFailed(i) == outcomes[i].t.kind \in {"connErr", "readErr"}

\* The i-th doRequest of the call got a response from the transport.
GotResponse(i) == outcomes[i].t.kind = "status"

\* The i-th doRequest of the call failed before reaching the transport.
BuildFailed(i) == outcomes[i].t = NotInvoked

Attempts == 1 .. Len(outcomes)

\* C1: when every attempt of a Do call fails at the transport, the call makes
\* exactly MaxRetries+1 transport invocations and returns a nil response with
\* a retry-exhausted error.
C1_ExhaustedAfterAllFail ==
    (DoReturned /\ \A i \in Attempts : TransportFailed(i))
        => /\ calls = retryConfig.MaxRetries + 1
           /\ ret.resp = Nil
           /\ ret.err.kind = "exhausted"

C1_Witness ==
    /\ DoReturned
    /\ retryConfig.MaxRetries = 3
    /\ Len(outcomes) = 4
    /\ \A i \in Attempts : TransportFailed(i)
    /\ calls = 4
    /\ ret.err.kind = "exhausted"

\* C2: when the transport fails on the first k attempts and answers on attempt
\* k+1, Do has made exactly k+1 transport invocations, makes no attempt after
\* the answer, and returns that response with a nil error.
C2_ReturnsFirstSuccess ==
    \A i \in Attempts :
        (GotResponse(i) /\ \A j \in 1 .. i - 1 : TransportFailed(j))
            => /\ i = Len(outcomes)
               /\ i - 1 <= retryConfig.MaxRetries
               /\ DoReturned
               /\ calls = i
               /\ ret = [resp |-> [StatusCode |-> outcomes[i].t.code,
                                   Body |-> outcomes[i].t.body],
                         err |-> Nil]

\* Scenario B: MaxRetries = 2, backoff 2, two failures and then a response.
C2_Witness ==
    /\ DoReturned
    /\ retryConfig = [MaxRetries |-> 2, Delay |-> 1, Backoff |-> 2]
    /\ Len(outcomes) = 3
    /\ TransportFailed(1) /\ TransportFailed(2) /\ GotResponse(3)
    /\ calls = 3
    /\ waits = <<1, 2>>
    /\ ret.err = Nil /\ ret.resp.StatusCode = 200

\* C3, as claimed: a Do call waits exactly once after each failed attempt that
\* another attempt follows, the wait after attempt i (from 0) is Delay x
\* Backoff^i, and with Backoff >= 1 the waits never decrease.  (BackoffDelay is
\* the exact product wherever it fits a duration, and OutOfRange, which no
\* wait equals, where it does not.)
C3_WaitsAreExactBackoff ==
    /\ Len(waits) = (IF pc = "loop" THEN Len(outcomes)
                     ELSE IF Len(outcomes) = 0 THEN 0 ELSE Len(outcomes) - 1)
    /\ \A i \in 1 .. Len(waits) : waits[i] = BackoffDelay(retryConfig, i - 1)
    /\ retryConfig.Backoff >= 1
         => \A i \in 1 .. Len(waits) - 1 : waits[i] <= waits[i + 1]

\* C4, as claimed: a Do call that starts after MaxFailures consecutive
\* transport failures, the cooldown not yet over, invokes no transport, makes
\* no attempt, and returns a breaker-open error.
C4_OpenBreakerRejects ==
    tripAtStart
        => /\ calls = 0
           /\ outcomes = <<>>
           /\ DoReturned => ret.err.kind = "breakerOpen"

\* C7: a response from the transport ends the Do call whatever its status code:
\* no attempt and no wait follows it, Do returns it with a nil error, and a
\* response to the first attempt makes that the only attempt.
C7_StatusNeverRetried ==
    \A i \in Attempts :
        GotResponse(i)
            => /\ i = Len(outcomes)
               /\ DoReturned
               /\ Len(waits) = i - 1
               /\ ret.err = Nil
               /\ ret.resp.StatusCode = outcomes[i].t.code
               /\ (i = 1 => calls = 1 /\ waits = <<>>)

C7_Witness ==
    /\ DoReturned
    /\ retryConfig.MaxRetries = 3
    /\ Len(outcomes) = 1
    /\ GotResponse(1) /\ outcomes[1].t.code = 500
    /\ ret.err = Nil /\ ret.resp.StatusCode = 500
    /\ calls = 1 /\ waits = <<>>

\* C8: when a JSON call's transport round trip brings a response with status
\* >= 400, JSON returns a non-nil HTTP error for that status, with no attempt
\* after the response; on the first attempt, exactly one transport invocation.
C8_JSONErrorOn4xx ==
    (pc = "done" /\ entry = "JSON")
        => \A i \in Attempts :
              (GotResponse(i) /\ outcomes[i].t.code >= 400)
                  => /\ jsonErr # Nil
                     /\ jsonErr = [kind |-> "http", code |-> outcomes[i].t.code]
                     /\ i = Len(outcomes)
                     /\ calls = i
                     /\ Len(waits) = i - 1

\* Scenario C: a 404 from a working transport.
C8_Witness ==
    /\ pc = "done" /\ entry = "JSON"
    /\ retryConfig.MaxRetries = 3
    /\ Len(outcomes) = 1
    /\ GotResponse(1) /\ outcomes[1].t.code = 404
    /\ jsonErr = [kind |-> "http", code |-> 404]
    /\ calls = 1 /\ waits = <<>>

\* C9, as claimed: a request that fails to build (marshal, URL, method) ends
\* the Do call at once: one attempt, no wait, no transport invocation.
C9_BuildFailureIsFatal ==
    \A i \in Attempts :
        BuildFailed(i)
            => /\ Len(outcomes) = 1
               /\ DoReturned
               /\ waits = <<>>
               /\ calls = 0

\* C10: the retry-exhausted error wraps the error of the last attempt made, and
\* its attempt count is the number of attempts made, MaxRetries+1.
C10_ExhaustedWrapsLast ==
    (DoReturned /\ ret.err.kind = "exhausted")
        => /\ Len(outcomes) >= 1
           /\ ret.err.wrapped = outcomes[Len(outcomes)].err
           /\ ret.err.attempts = Len(outcomes)
           /\ ret.err.attempts = retryConfig.MaxRetries + 1

\* Exhaustion after attempts whose errors differ.
C10_Witness ==
    /\ DoReturned
    /\ ret.err.kind = "exhausted"
    /\ Len(outcomes) = 3
    /\ outcomes[1].err # outcomes[3].err
    /\ outcomes[2].err # outcomes[3].err
    /\ ret.err.wrapped = outcomes[3].err
    /\ ret.err.attempts = 3

---------------------------------------------------------------------------
(* Properties of the RateLimiter *)

\* C5: on a fresh limiter with burst >= 1, the first burst Wait calls to be
\* admitted take a token that is there (none waits for a replenishment), and
\* the next one is admitted no earlier than one rate after the first token
\* was taken.
C5_BurstThenOneInterval ==
    burst >= 1
        => /\ \A i \in 1 .. Len(served) : i <= burst => ~served[i].blocked
           /\ Len(served) > burst => served[burst + 1].at >= served[1].at + rate

\* Two admitted at once, a third caller blocked and admitted exactly one rate later.
C5_Witness ==
    /\ burst = 2 /\ rate = 2
    /\ Len(served) >= 3
    /\ served[2].at = served[1].at
    /\ served[3].blocked
    /\ served[3].at = served[1].at + rate

\* C6: the number of tokens in the pool is always at least 0 and at most burst.
C6_TokensWithinBurst == requests >= 0 /\ requests <= burst

\* The pool emptied by concurrent callers, one more blocked on it, and later
\* full again.
C6_Witness ==
    /\ burst = 2
    /\ requests = burst
    /\ Len(served) >= 3
    /\ \E i \in 1 .. Len(served) : served[i].blocked

---------------------------------------------------------------------------
(* The rate limiter, continued *)

C16_TokenBeforeTransport == calls <= Len(served)

---------------------------------------------------------------------------
(* The headers sent *)

\* The values the caller supplied for the header K: the request's own if it
\* has any (under any spelling of the key), else the client's defaults.
Supplied(K) ==
    LET fromReq == { hreq[k] : k \in { x \in DOMAIN hreq : Canon(x) = K } }
        fromDef == { hdefaults[k] : k \in { x \in DOMAIN hdefaults : Canon(x) = K } }
    IN IF fromReq # {} THEN fromReq ELSE fromDef

\* C19: with a body and a Content-Type supplied by the caller (in the request
\* headers or in the client defaults), the caller's value is the one sent; the
\* automatic application/json is applied only when the caller set none.
C19_CallerContentTypeWins ==
    (hpc = "done" /\ hbody)
        => /\ "Content-Type" \in DOMAIN sent
           /\ IF Supplied("Content-Type") # {}
              THEN sent["Content-Type"] \in Supplied("Content-Type")
              ELSE sent["Content-Type"] = AutoContentType

\* C20: for every header other than the automatically set content type, the
\* value sent is the request's own if it supplied one and the client default
\* otherwise; a default never overrides the request's value.
C20_RequestOverDefault ==
    hpc = "done"
        => \A K \in { Canon(k) : k \in HeaderKeys } :
             (K # "Content-Type" \/ ~hbody)
                 => IF Supplied(K) = {}
                    THEN K \notin DOMAIN sent
                    ELSE K \in DOMAIN sent /\ sent[K] \in Supplied(K)

\* C20: request and defaults disagree on X-Id and on the content type of a
\* request without body, and the request's values went out.
C20_Witness ==
    /\ hpc = "done" /\ ~hbody
    /\ "X-Id" \in DOMAIN hreq /\ "X-Id" \in DOMAIN hdefaults
    /\ hreq["X-Id"] # hdefaults["X-Id"]
    /\ sent["X-Id"] = hreq["X-Id"]
    /\ "content-type" \in DOMAIN hreq /\ "Content-Type" \in DOMAIN hdefaults
    /\ hreq["content-type"] # hdefaults["Content-Type"]
    /\ sent["Content-Type"] = hreq["content-type"]

---------------------------------------------------------------------------
(* WithContext *)

\* The call returned a failure of the transport itself, not a cancellation.
WCTransportFailed ==
    /\ wcpc = "done"
    /\ wcret.err # Nil
    /\ wcret.err.kind \in {"request", "readbody"}
    /\ wcret.err # CanceledErr

---------------------------------------------------------------------------
(* Concurrent calls of Do *)

\* C18: concurrent calls of Do are independent.  Each call makes at most
\* MaxRetries+1 attempts, counted by its own attempt variable; a call that
\* reports exhaustion has made exactly MaxRetries+1 of them, whatever the other
\* calls did meanwhile; and a call's next step never waits for another call.
C18_CallsIndependent ==
    \A p \in DoCalls :
        LET c == dcall[p] IN
        /\ c.n <= retryConfig.MaxRetries + 1
        /\ c.pc = "loop" => c.n = c.attempt /\ ENABLED TransportStart(p)
        /\ c.pc \in {"inflight", "sleep"} => c.n = c.attempt + 1
        /\ c.pc = "inflight" => \A t \in ConcurrentOutcomes : ENABLED TransportEnd(p, t)
        /\ c.pc = "sleep" => ENABLED DoSleep(p)
        /\ (c.pc = "done" /\ c.ret.err = Nil) => c.n = c.attempt + 1
        /\ (c.pc = "done" /\ c.ret.err # Nil)
               => /\ c.ret.err.kind = "exhausted"
                  /\ c.n = retryConfig.MaxRetries + 1

\* C18: one call asleep after its second failure, beside a call that succeeded
\* at once and a later state where the first has used up its attempts.
C18_Witness ==
    \E p, q \in DoCalls :
        /\ p # q
        /\ retryConfig.MaxRetries = 2
        /\ dcall[p].pc = "sleep" /\ dcall[p].attempt = 1 /\ dcall[p].n = 2
        /\ dcall[q].pc = "done" /\ dcall[q].ret.err = Nil /\ dcall[q].n = 1

\* C11: once the breaker is Open and the cooldown has elapsed, one probing
\* request is let through and no other until its outcome is recorded: no
\* transport invocation starts while the probe is pending.
C11_OneProbeInHalfOpen == ~brk.extra

\* C12: a failed probe sends the breaker back to Open with the cooldown
\* restarted (and a successful one to Closed with the counter at 0): after a
\* failed probe no transport invocation starts before the cooldown has
\* elapsed again.
C12_FailedProbeRestartsCooldown == ~brk.early

---------------------------------------------------------------------------
(* The rate limiter: termination of Wait *)

\* C13: for burst >= 1, under fair scheduling and advancing time, every call
\* of Wait returns: a caller blocked on the empty pool is released by a later
\* replenishment, and a caller that holds a token goes on to return.
C13_EveryWaitReturns ==
    \A c \in Callers :
        (burst >= 1 /\ wpc[c] # "idle") ~> (wpc[c] = "idle")

\* C13: every token was taken at time 0, a caller that found the pool empty
\* was released by a replenishment, and every call has returned.
C13_Witness ==
    /\ burst >= 1
    /\ Len(served) = burst + 1
    /\ served[burst + 1].blocked /\ served[burst + 1].at > 0
    /\ Returns = Len(served)
    /\ \A c \in Callers : wpc[c] = "idle"

---------------------------------------------------------------------------
(* The rate limiter: conservation of tokens, and the empty pool *)

\* Callers of Wait that have taken a token and not yet started its goroutine.
Held == Cardinality({c \in Callers : wpc[c] = "spawn"})

\* Tokens put back into the channel so far.
PutBack == Len(served) - Held - BagCardinality(refills)

\* C25: every token taken by Wait is put back exactly once, not before one
\* refill interval after it was taken, and no token is put back otherwise:
\* the tokens in the pool plus the replenishments pending are burst, the
\* tokens put back never outnumber those taken at least rate ago, and a
\* replenishment always finds room in the pool.
C25_TokensConserved ==
    /\ requests + Held + BagCardinality(refills) = burst
    /\ PutBack >= 0
    /\ PutBack <= Cardinality({i \in 1 .. Len(served) : served[i].at + rate <= clock})
    /\ refills # EmptyBag => requests < burst

\* C25: two tokens taken at once, one back in the pool an interval later while
\* the goroutine of the other is still asleep.
C25_Witness ==
    /\ burst = 2 /\ rate = 2
    /\ Len(served) = 2 /\ PutBack = 1 /\ requests = 1
    /\ \E g \in BagToSet(refills) : g.st = "sleeping" /\ g.wake > clock

\* C27: with burst = 0 no call of Wait ever returns: no token is ever taken,
\* no goroutine is ever started, and a caller that has called stays blocked.
C27_EmptyPoolBlocksForever ==
    [][burst = 0
         => /\ Len(served') = 0 /\ Returns' = 0 /\ refills' = EmptyBag
            /\ \A c \in Callers : wpc'[c] # "spawn"
            /\ \A c \in Callers : wpc[c] = "blocked" => wpc'[c] = "blocked"]_vars

\* C27: every caller has called Wait on the empty pool and the clock has run out.
C27_Witness ==
    /\ burst = 0 /\ clock = MaxClock
    /\ \A c \in Callers : wpc[c] = "blocked"

---------------------------------------------------------------------------
(* WithContext: one attempt *)

\* C26: WithContext makes exactly one transport attempt per call whatever the
\* retry configuration: a call in flight or returned from the transport has
\* invoked it once, and a failure of the transport is returned with that one
\* invocation made.
C26_ExactlyOneAttempt ==
    /\ wchist.calls <= 1
    /\ wcpc = "inflight" => wchist.calls = 1
    /\ WCTransportFailed => wchist.calls = 1
    /\ (wcpc = "done" /\ wcret.err = Nil) => wchist.calls = 1

\* C26: three retries configured, the transport failed under a live context,
\* and the call has returned after its only invocation.
C26_Witness ==
    /\ retryConfig.MaxRetries = 3
    /\ WCTransportFailed /\ wcctx = "live"
    /\ wchist.calls = 1

---------------------------------------------------------------------------
(* The Client: what a call of Do depends on, and what it leaves alone *)

\* C21: Do never consults the circuit breaker.  Whatever the CircuitBreaker
\* configuration and whatever failures came before, a call in its loop goes on
\* to doRequest, and what it has done when it returns is fixed by the request,
\* the retry configuration and the transport's answers alone: it stopped at
\* the first attempt without error or after MaxRetries+1 failures, invoked the
\* transport once per request built, and returned that attempt's response or
\* the exhaustion error around the last failure.
C21_BreakerNeverConsulted ==
    /\ pc = "loop" => ENABLED Attempt
    /\ DoReturned
         => LET n == Len(outcomes) IN
            /\ n >= 1 /\ n <= retryConfig.MaxRetries + 1
            /\ \A i \in 1 .. n - 1 : outcomes[i].err # Nil
            /\ \A i \in 1 .. n :
                 \E t \in TransportOutcomes : outcomes[i] = doRequest(req, t)
            /\ calls = Cardinality({i \in 1 .. n : ~BuildFailed(i)})
            /\ IF outcomes[n].err = Nil
               THEN ret = [resp |-> outcomes[n].resp, err |-> Nil]
               ELSE /\ n = retryConfig.MaxRetries + 1
                    /\ ret = ExhaustedReturn(retryConfig, outcomes[n].err)

\* C21: a call begun with the highest failure threshold reached and the
\* cooldown not over, that went to the transport and returned its response.
C21_Witness ==
    /\ DoReturned /\ tripAtStart
    /\ circuitBreaker.MaxFailures = MaxFailuresBound
    /\ consecFail = 0
    /\ calls = 1 /\ ret.err = Nil

\* C22: Do, doRequest, JSON and WithContext leave the Client's default
\* headers, retry configuration and circuit-breaker configuration as they
\* were, and the caller's Request as it was for as long as the call runs, on
\* success and on every error path.  (The base URL is only ever read, into
\* the URL of the request built; the model carries it inside Request.URL.)
C22_CallsLeaveClientAndRequest ==
    [][/\ retryConfig' = retryConfig
       /\ circuitBreaker' = circuitBreaker
       /\ hdefaults' = hdefaults
       /\ (pc # "idle" /\ pc' # "idle") => req' = req
       /\ (wcpc # "idle" /\ wcpc' # "idle") => wcreq' = wcreq
       /\ hpc # "done" => hreq' = hreq /\ hbody' = hbody]_vars

\* C22: a call of Do that ended in exhaustion after a request that could not
\* be built, with its Request still the one passed in.
C22_Witness ==
    /\ pc = "done" /\ ret.err.kind = "exhausted"
    /\ req = [Method |-> "POST", URL |-> "/items", Body |-> "chan"]
    /\ retryConfig.MaxRetries = 1 /\ Len(outcomes) = 2


---------------------------------------------------------------------------
(* Cron *)

\* C23: AddJob accepts the README's every-5-minutes schedule
\* "* * * * */5": every such call returns nil and registers its job, and a
\* registered job of that schedule is run every 5 minutes once the scheduler
\* is started.
C23_EveryFiveMinutesAccepted ==
    /\ \A a \in DOMAIN cadds :
          cadds[a].schedule = EveryFiveMinutes => cadds[a].err = "nil"
    /\ Cardinality({a \in DOMAIN cadds : cadds[a].schedule = EveryFiveMinutes})
          = Cardinality({j \in DOMAIN cjobs : cjobs[j].Schedule = EveryFiveMinutes})
    /\ \A j \in DOMAIN cjobs :
          cjobs[j].Schedule = EveryFiveMinutes =>
             \A k \in 1 .. Len(cruns[j]) - 1 : cruns[j][k + 1] - cruns[j][k] = 5

---------------------------------------------------------------------------
(* SanitizePath *)

\* C24: for every input, the output of SanitizePath contains no ".."
\* sequence, whatever NUL bytes and backslashes the input mixes in.
C24_NoTraversalSurvives ==
    spc = "returned" => ~Contains(sout, <<".", ".">>)

---------------------------------------------------------------------------
(* Migrator *)

\* The migrations whose Up has been invoked, in the order of the invocations.
UpsInvoked == [k \in DOMAIN mhist.ups |-> mhist.ups[k].i]

\* RunMigrations has returned nil, and so far there were only calls of
\* RunMigrations and every operation of theirs succeeded.
RunsAllSucceeded ==
    mpc = "idle" /\ mhist.last = "run" /\ ~mhist.failed /\ ~mhist.rollbacks

\* C28 as stated: over calls of RunMigrations whose database operations all
\* succeed, each registered migration's Up is invoked exactly once, in
\* registration order.
C28_EachMigrationUpOnce ==
    RunsAllSucceeded => UpsInvoked = [k \in 1 .. mhist.n |-> k]

\* C28, amended: over calls of RunMigrations whose database operations all
\* succeed, Up is invoked in registration order and at most once per
\* migration, and when a call has returned, the migrations whose Up has been
\* invoked are exactly the first ones registered with each version: a later
\* migration of a version already recorded is skipped and its Up never runs,
\* and so is every migration on a second call.
C28_EachVersionUpOnce ==
    (~mhist.failed /\ ~mhist.rollbacks) =>
       /\ \A a, b \in DOMAIN UpsInvoked : a < b => UpsInvoked[a] < UpsInvoked[b]
       /\ RunsAllSucceeded =>
             {UpsInvoked[k] : k \in DOMAIN UpsInvoked}
                = {i \in 1 .. mhist.n : FindMigration(migrations[i]) = i}

\* Two migrations of different versions were run by a first call, and a
\* second call has returned without invoking any Up.
C28_Witness ==
    /\ RunsAllSucceeded
    /\ mcalls = 2 /\ mhist.n = 2 /\ migrations[1] # migrations[2]
    /\ UpsInvoked = <<1, 2>>
    /\ Len(mtable) = 2

\* C29: across calls of RunMigrations, failing ones included, no migration's
\* Up completes successfully more than once.
C29_UpCompletesOnce ==
    ~mhist.rollbacks =>
       \A a, b \in DOMAIN mhist.ups :
          (a # b /\ mhist.ups[a].ok /\ mhist.ups[b].ok)
             => mhist.ups[a].i # mhist.ups[b].i

\* C30: when RollbackMigrations(count) has returned, the versions whose Down
\* was run are the min(count, applied) most recently applied ones, the most
\* recent first (asked of the calls whose every operation succeeded), and the
\* record of a version whose Down was run is gone exactly if that Down
\* succeeded.
C30_RollbackNewestFirst ==
    (mpc = "idle" /\ mhist.last = "rollback") =>
       /\ mhist.clean =>
             [k \in DOMAIN mhist.downs |-> mhist.downs[k].version] = mhist.expect
       /\ \A k \in DOMAIN mhist.downs :
             (Count(mtable, mhist.downs[k].version) = 0) <=> mhist.downs[k].ok

====
